---- MODULE Spec2Model ----
(***************************************************************************)
(* A model of the generic doubly linked list of list.go: the ring of       *)
(* Elements around each List's root sentinel, the container operations,    *)
(* the relink primitive swap and the in-place QuickSort built on it.       *)
(***************************************************************************)
EXTENDS Integers, Sequences, FiniteSets, TLC

\* ------------------------------------------------------------------ bounds
MaxNodes == 3
MaxLen == 4
MaxVal == 3

\* ------------------------------------------------------- the heap's shape
ExampleInput == <<5, 3, 8, 3, 1, 9, 3>>

Max2(a, b) == IF a > b THEN a ELSE b

PoolSize == Max2(Len(ExampleInput), Max2(MaxNodes, MaxLen))

NIL == 0

Lists == {1, 2}

Elems == 1..PoolSize

Root(l) == 0 - l

Roots == {Root(l) : l \in Lists}

Nodes == Elems \cup Roots

Values == 1..MaxVal

\* The value a client of the container operations stores in the n-th
\* Element it allocates: 1, 2, ..., MaxVal, 1, ...  Lists then hold values
\* below and above a pivot in any order, and ties once a list is copied.
NewValues(n) == {1 + ((n - 1) % MaxVal)}

AllValues == Values \cup {ExampleInput[i] : i \in DOMAIN ExampleInput} \cup {0}

CmpKinds == {"asc", "desc", "weak"}

VARIABLES next, prev, list, Value, len, nalloc, stack, crashed, h

heapvars == <<next, prev, list, Value, len, nalloc>>

vars == <<next, prev, list, Value, len, nalloc, stack, crashed, h>>

\* The heap as one value, so that helpers can be composed like the calls
\* of the source.
St == [next |-> next, prev |-> prev, list |-> list, Value |-> Value,
       len |-> len, nalloc |-> nalloc]

SetSt(S) ==
    /\ next' = S.next
    /\ prev' = S.prev
    /\ list' = S.list
    /\ Value' = S.Value
    /\ len' = S.len
    /\ nalloc' = S.nalloc

\* ------------------------------------------------------------- Element
\* e.Next(): nil when e is detached or its successor is the sentinel.
ElemNext(S, e) ==
    IF S.list[e] # NIL /\ S.next[e] # Root(S.list[e]) THEN S.next[e] ELSE NIL

\* e.Prev()
ElemPrev(S, e) ==
    IF S.list[e] # NIL /\ S.prev[e] # Root(S.list[e]) THEN S.prev[e] ELSE NIL

\* ---------------------------------------------------------------- List
ListInit(S, l) ==
    [S EXCEPT !.next[Root(l)] = Root(l),
              !.prev[Root(l)] = Root(l),
              !.len[l] = 0]

ListLen(S, l) == S.len[l]

Front(S, l) == IF S.len[l] = 0 THEN NIL ELSE S.next[Root(l)]

Back(S, l) == IF S.len[l] = 0 THEN NIL ELSE S.prev[Root(l)]

lazyInit(S, l) == IF S.next[Root(l)] = NIL THEN ListInit(S, l) ELSE S

\* insert(e, at): the six statements in source order.
insert(S, l, e, at) ==
    LET S1 == [S EXCEPT !.prev[e] = at]
        S2 == [S1 EXCEPT !.next[e] = S1.next[at]]
        S3 == [S2 EXCEPT !.next[S2.prev[e]] = e]
        S4 == [S3 EXCEPT !.prev[S3.next[e]] = e]
        S5 == [S4 EXCEPT !.list[e] = l]
    IN  [S5 EXCEPT !.len[l] = S5.len[l] + 1]

\* insertValue(v, at): allocates the Element, then insert.
insertValue(S, l, v, at) ==
    LET e == S.nalloc + 1
        S1 == [S EXCEPT !.nalloc = e, !.Value[e] = v]
    IN  insert(S1, l, e, at)

\* remove leaving e.list set.
removeKeepsOwner(S, l, e) ==
    LET S1 == [S EXCEPT !.next[S.prev[e]] = S.next[e]]
        S2 == [S1 EXCEPT !.prev[S1.next[e]] = S1.prev[e]]
        S3 == [S2 EXCEPT !.next[e] = NIL]
        S4 == [S3 EXCEPT !.prev[e] = NIL]
    IN  [S4 EXCEPT !.len[l] = S4.len[l] - 1]

remove(S, l, e) ==
    LET S1 == [S EXCEPT !.next[S.prev[e]] = S.next[e]]
        S2 == [S1 EXCEPT !.prev[S1.next[e]] = S1.prev[e]]
        S3 == [S2 EXCEPT !.next[e] = NIL]
        S4 == [S3 EXCEPT !.prev[e] = NIL]
        S5 == [S4 EXCEPT !.list[e] = NIL]
    IN  [S5 EXCEPT !.len[l] = S5.len[l] - 1]

\* move linking e in after at.next instead of after at.
moveOneTooFar(S, e, at) ==
    IF e = at THEN S
    ELSE LET S1 == [S EXCEPT !.next[S.prev[e]] = S.next[e]]
             S2 == [S1 EXCEPT !.prev[S1.next[e]] = S1.prev[e]]
             S3 == [S2 EXCEPT !.prev[e] = S2.next[at]]
             S4 == [S3 EXCEPT !.next[e] = S3.next[S3.prev[e]]]
             S5 == [S4 EXCEPT !.next[S4.prev[e]] = e]
         IN  [S5 EXCEPT !.prev[S5.next[e]] = e]

move(S, e, at) ==
    IF e = at THEN S
    ELSE LET S1 == [S EXCEPT !.next[S.prev[e]] = S.next[e]]
             S2 == [S1 EXCEPT !.prev[S1.next[e]] = S1.prev[e]]
             S3 == [S2 EXCEPT !.prev[e] = at]
             S4 == [S3 EXCEPT !.next[e] = S3.next[at]]
             S5 == [S4 EXCEPT !.next[S4.prev[e]] = e]
         IN  [S5 EXCEPT !.prev[S5.next[e]] = e]


\* swap(b, d): each branch is the source's assignments in source order.
\* The forward relink without d.next.prev = b.
swapFwdSlip(S, b, d) ==
    LET S1 == [S EXCEPT !.next[S.prev[b]] = d]
        S3 == [S1 EXCEPT !.prev[d] = S1.prev[b]]
        S4 == [S3 EXCEPT !.next[b] = S3.next[d]]
        S5 == [S4 EXCEPT !.next[d] = b]
    IN  [S5 EXCEPT !.prev[b] = d]

swapFwd(S, b, d) ==
    LET S1 == [S EXCEPT !.next[S.prev[b]] = d]
        S2 == [S1 EXCEPT !.prev[S1.next[d]] = b]
        S3 == [S2 EXCEPT !.prev[d] = S2.prev[b]]
        S4 == [S3 EXCEPT !.next[b] = S3.next[d]]
        S5 == [S4 EXCEPT !.next[d] = b]
    IN  [S5 EXCEPT !.prev[b] = d]

\* The backward case written as a copy of the forward one.
swapBwdSlip(S, b, d) ==
    LET S1 == [S EXCEPT !.next[S.prev[b]] = d]
        S2 == [S1 EXCEPT !.prev[S1.next[d]] = b]
        S3 == [S2 EXCEPT !.prev[d] = S2.prev[b]]
        S4 == [S3 EXCEPT !.next[b] = S3.next[d]]
        S5 == [S4 EXCEPT !.next[d] = b]
    IN  [S5 EXCEPT !.prev[b] = d]

swapBwd(S, b, d) ==
    LET S1 == [S EXCEPT !.next[S.prev[d]] = b]
        S2 == [S1 EXCEPT !.prev[S1.next[b]] = d]
        S3 == [S2 EXCEPT !.prev[b] = S2.prev[d]]
        S4 == [S3 EXCEPT !.next[d] = S3.next[b]]
        S5 == [S4 EXCEPT !.next[b] = d]
    IN  [S5 EXCEPT !.prev[d] = b]

\* The non-adjacent relink without d.prev.next = b.
swapFarSlip(S, b, d) ==
    LET S1 == [S EXCEPT !.prev[S.next[b]] = d]
        S2 == [S1 EXCEPT !.next[S1.prev[b]] = d]
        S3 == [S2 EXCEPT !.prev[S2.next[d]] = b]
        bPrevP == S3.prev[b]
        bNextP == S3.next[b]
        S5 == [S3 EXCEPT !.prev[b] = S3.prev[d]]
        S6 == [S5 EXCEPT !.next[b] = S5.next[d]]
        S7 == [S6 EXCEPT !.prev[d] = bPrevP]
    IN  [S7 EXCEPT !.next[d] = bNextP]

swapFar(S, b, d) ==
    LET S1 == [S EXCEPT !.prev[S.next[b]] = d]
        S2 == [S1 EXCEPT !.next[S1.prev[b]] = d]
        S3 == [S2 EXCEPT !.prev[S2.next[d]] = b]
        S4 == [S3 EXCEPT !.next[S3.prev[d]] = b]
        bPrevP == S4.prev[b]
        bNextP == S4.next[b]
        S5 == [S4 EXCEPT !.prev[b] = S4.prev[d]]
        S6 == [S5 EXCEPT !.next[b] = S5.next[d]]
        S7 == [S6 EXCEPT !.prev[d] = bPrevP]
    IN  [S7 EXCEPT !.next[d] = bNextP]

\* A nil among the pointers swap dereferences is a nil-pointer panic.
swapPanics(S, b, d) ==
    \/ b = NIL
    \/ d = NIL
    \/ /\ b # d
       /\ NIL \in {S.next[b], S.prev[b], S.next[d], S.prev[d]}

\* Sorting by exchanging the stored values and leaving the links alone.
swapValues(S, b, d) ==
    IF b = d THEN [S |-> S, neighbor |-> FALSE]
    ELSE [S |-> [S EXCEPT !.Value[b] = S.Value[d], !.Value[d] = S.Value[b]],
          neighbor |-> S.next[b] = d \/ S.prev[b] = d]

\* neighbor reported for every pair of distinct elements.
swapAlwaysNeighbor(S, b, d) ==
    IF b = d THEN [S |-> S, neighbor |-> FALSE]
    ELSE IF S.next[b] = d \/ S.prev[b] = d
         THEN IF S.next[b] = d
              THEN [S |-> swapFwd(S, b, d), neighbor |-> TRUE]
              ELSE [S |-> swapBwd(S, b, d), neighbor |-> TRUE]
         ELSE [S |-> swapFar(S, b, d), neighbor |-> TRUE]

\* neighbor set in the forward branch only.
swapFlagSlip(S, b, d) ==
    IF b = d THEN [S |-> S, neighbor |-> FALSE]
    ELSE IF S.next[b] = d \/ S.prev[b] = d
         THEN IF S.next[b] = d
              THEN [S |-> swapFwd(S, b, d), neighbor |-> TRUE]
              ELSE [S |-> swapBwd(S, b, d), neighbor |-> FALSE]
         ELSE [S |-> swapFar(S, b, d), neighbor |-> FALSE]

swap(S, b, d) ==
    IF b = d THEN [S |-> S, neighbor |-> FALSE]
    ELSE IF S.next[b] = d \/ S.prev[b] = d
         THEN IF S.next[b] = d
              THEN [S |-> swapFwd(S, b, d), neighbor |-> TRUE]
              ELSE [S |-> swapBwd(S, b, d), neighbor |-> TRUE]
         ELSE [S |-> swapFar(S, b, d), neighbor |-> FALSE]

\* cmp: the three-way comparators supplied to QuickSort.  "asc" is the
\* comparator of the test, "desc" its reverse, "weak" a weak order in which
\* distinct values tie (1 ~ 2, 3 ~ 4, ...).
Sign(x) == IF x < 0 THEN 0 - 1 ELSE IF x > 0 THEN 1 ELSE 0

Key(a) == (a + 1) \div 2

Cmp(k, a, b) ==
    IF k = "asc" THEN (IF a < b THEN 0 - 1 ELSE IF a > b THEN 1 ELSE 0)
    ELSE IF k = "desc" THEN (IF a > b THEN 0 - 1 ELSE IF a < b THEN 1 ELSE 0)
    ELSE Sign(Key(a) - Key(b))


\* ------------------------------------------------------------ observers
RECURSIVE Walk(_, _, _, _)
\* The nodes met by following next from n up to (excluding) the sentinel.
Walk(S, n, root, fuel) ==
    IF n = root \/ n = NIL \/ fuel = 0 THEN <<>>
    ELSE <<n>> \o Walk(S, S.next[n], root, fuel - 1)

RECURSIVE WalkBack(_, _, _, _)
WalkBack(S, n, root, fuel) ==
    IF n = root \/ n = NIL \/ fuel = 0 THEN <<>>
    ELSE WalkBack(S, S.prev[n], root, fuel - 1) \o <<n>>

\* The traversal for e := l.Front(); e != nil; e = e.Next().
Order(S, l) == Walk(S, S.next[Root(l)], Root(l), PoolSize + 1)

OrderBack(S, l) == WalkBack(S, S.prev[Root(l)], Root(l), PoolSize + 1)

Range(s) == {s[i] : i \in DOMAIN s}

Reach(S, l) == Range(Order(S, l))

ValuesOf(S, s) == [i \in DOMAIN s |-> S.Value[s[i]]]

Allocated == 1..nalloc

Idle == stack = <<>> /\ ~crashed

\* ---------------------------------------------------- public operations
\* New(): every list initialized and empty, no Element allocated yet.
Heap0 ==
    [next |-> [n \in Nodes |-> IF n \in Roots THEN n ELSE NIL],
     prev |-> [n \in Nodes |-> IF n \in Roots THEN n ELSE NIL],
     list |-> [n \in Nodes |-> NIL],
     Value |-> [n \in Nodes |-> 0],
     len |-> [l \in Lists |-> 0],
     nalloc |-> 0]

NoPre == Heap0

\* h records the call just made: its name, receiver, arguments and result.
\* QuickSort and swap also keep the heap they were called on; trace lists
\* the swap calls a sort has made so far, ref the outcome of an earlier sort
\* it is compared with.
Done(op, l, e, mark, ret) ==
    h' = [op |-> op, l |-> l, e |-> e, mark |-> mark, ret |-> ret,
          cmp |-> "none", pre |-> NoPre, trace |-> <<>>, ref |-> <<>>]

DoneSnap(op, l, e, mark, ret, k) ==
    h' = [op |-> op, l |-> l, e |-> e, mark |-> mark, ret |-> ret,
          cmp |-> k, pre |-> St, trace |-> <<>>, ref |-> <<>>]

PushFront(l, v) ==
    /\ Idle
    /\ nalloc < MaxNodes
    /\ SetSt(insertValue(lazyInit(St, l), l, v, Root(l)))
    /\ Done("PushFront", l, NIL, NIL, nalloc + 1)
    /\ UNCHANGED <<stack, crashed>>

PushBack(l, v) ==
    /\ Idle
    /\ nalloc < MaxNodes
    /\ LET S1 == lazyInit(St, l)
       IN  SetSt(insertValue(S1, l, v, S1.prev[Root(l)]))
    /\ Done("PushBack", l, NIL, NIL, nalloc + 1)
    /\ UNCHANGED <<stack, crashed>>

InsertBefore(l, v, mark) ==
    /\ Idle
    /\ nalloc < MaxNodes
    /\ IF list[mark] # l
       THEN /\ UNCHANGED heapvars
            /\ Done("InsertBefore", l, NIL, mark, NIL)
       ELSE /\ SetSt(insertValue(St, l, v, prev[mark]))
            /\ Done("InsertBefore", l, NIL, mark, nalloc + 1)
    /\ UNCHANGED <<stack, crashed>>

InsertAfter(l, v, mark) ==
    /\ Idle
    /\ nalloc < MaxNodes
    /\ IF list[mark] # l
       THEN /\ UNCHANGED heapvars
            /\ Done("InsertAfter", l, NIL, mark, NIL)
       ELSE /\ SetSt(insertValue(St, l, v, mark))
            /\ Done("InsertAfter", l, NIL, mark, nalloc + 1)
    /\ UNCHANGED <<stack, crashed>>

\* Remove without the test e.list == l.
RemoveUnchecked(l, e) ==
    /\ Idle
    /\ list[e] # NIL
    /\ SetSt(remove(St, l, e))
    /\ Done("Remove", l, e, NIL, Value[e])
    /\ UNCHANGED <<stack, crashed>>

Remove(l, e) ==
    /\ Idle
    /\ IF list[e] = l THEN SetSt(remove(St, l, e)) ELSE UNCHANGED heapvars
    /\ Done("Remove", l, e, NIL, Value[e])
    /\ UNCHANGED <<stack, crashed>>

MoveToFront(l, e) ==
    /\ Idle
    /\ IF list[e] # l \/ next[Root(l)] = e
       THEN UNCHANGED heapvars
       ELSE SetSt(move(St, e, Root(l)))
    /\ Done("MoveToFront", l, e, NIL, NIL)
    /\ UNCHANGED <<stack, crashed>>

MoveToBack(l, e) ==
    /\ Idle
    /\ IF list[e] # l \/ prev[Root(l)] = e
       THEN UNCHANGED heapvars
       ELSE SetSt(move(St, e, prev[Root(l)]))
    /\ Done("MoveToBack", l, e, NIL, NIL)
    /\ UNCHANGED <<stack, crashed>>

\* MoveBefore without the test mark.list != l.
MoveBeforeUnchecked(l, e, mark) ==
    /\ Idle
    /\ IF list[e] # l \/ e = mark \/ list[mark] = NIL
       THEN UNCHANGED heapvars
       ELSE SetSt(move(St, e, prev[mark]))
    /\ Done("MoveBefore", l, e, mark, NIL)
    /\ UNCHANGED <<stack, crashed>>

MoveBefore(l, e, mark) ==
    /\ Idle
    /\ IF list[e] # l \/ e = mark \/ list[mark] # l
       THEN UNCHANGED heapvars
       ELSE SetSt(move(St, e, prev[mark]))
    /\ Done("MoveBefore", l, e, mark, NIL)
    /\ UNCHANGED <<stack, crashed>>

MoveAfter(l, e, mark) ==
    /\ Idle
    /\ IF list[e] # l \/ e = mark \/ list[mark] # l
       THEN UNCHANGED heapvars
       ELSE SetSt(move(St, e, mark))
    /\ Done("MoveAfter", l, e, mark, NIL)
    /\ UNCHANGED <<stack, crashed>>

RECURSIVE PushBackLoop(_, _, _, _)
\* for i, e := other.Len(), other.Front(); i > 0; i, e = i-1, e.Next()
PushBackLoop(S, l, i, e) ==
    IF i <= 0 THEN [S |-> S, panic |-> FALSE]
    ELSE IF e = NIL THEN [S |-> S, panic |-> TRUE]
    ELSE LET S1 == insertValue(S, l, S.Value[e], S.prev[Root(l)])
         IN  PushBackLoop(S1, l, i - 1, ElemNext(S1, e))

RECURSIVE PushFrontLoopForward(_, _, _, _)
\* The loop of PushFrontList advancing with e.Next(), as PushBackList does.
PushFrontLoopForward(S, l, i, e) ==
    IF i <= 0 THEN [S |-> S, panic |-> FALSE]
    ELSE IF e = NIL THEN [S |-> S, panic |-> TRUE]
    ELSE LET S1 == insertValue(S, l, S.Value[e], Root(l))
         IN  PushFrontLoopForward(S1, l, i - 1, ElemNext(S1, e))

RECURSIVE PushFrontLoop(_, _, _, _)
\* for i, e := other.Len(), other.Back(); i > 0; i, e = i-1, e.Prev()
PushFrontLoop(S, l, i, e) ==
    IF i <= 0 THEN [S |-> S, panic |-> FALSE]
    ELSE IF e = NIL THEN [S |-> S, panic |-> TRUE]
    ELSE LET S1 == insertValue(S, l, S.Value[e], Root(l))
         IN  PushFrontLoop(S1, l, i - 1, ElemPrev(S1, e))

\* The body of PushBackList, for a client with room for the copies.
PushBackListCall(l, other) ==
    /\ Idle
    /\ LET S1 == lazyInit(St, l)
           r == PushBackLoop(S1, l, ListLen(S1, other), Front(S1, other))
       IN  /\ SetSt(r.S)
           /\ crashed' = r.panic
    /\ Done("PushBackList", l, NIL, other, NIL)
    /\ UNCHANGED stack

PushBackList(l, other) ==
    /\ nalloc + len[other] <= MaxNodes
    /\ PushBackListCall(l, other)

\* The body of PushFrontList, for a client with room for the copies.
PushFrontListCall(l, other) ==
    /\ Idle
    /\ LET S1 == lazyInit(St, l)
           r == PushFrontLoop(S1, l, ListLen(S1, other), Back(S1, other))
       IN  /\ SetSt(r.S)
           /\ crashed' = r.panic
    /\ Done("PushFrontList", l, NIL, other, NIL)
    /\ UNCHANGED stack

PushFrontList(l, other) ==
    /\ nalloc + len[other] <= MaxNodes
    /\ PushFrontListCall(l, other)

\* l.Init() called by the client on a list in any state.
InitList(l) ==
    /\ Idle
    /\ SetSt(ListInit(St, l))
    /\ Done("Init", l, NIL, NIL, NIL)
    /\ UNCHANGED <<stack, crashed>>


\* ------------------------------------------------------------ QuickSort
\* One activation record of _qsort: its parameters and locals, and the
\* statement it is at.  pivot, last and order remember the arguments left
\* and right and the list order as they were at entry.
Frame(lft, rgt, k) ==
    [pc |-> "entry", left |-> lft, right |-> rgt, cmp |-> k, LBoundary |-> NIL,
     RBoundary |-> NIL, pivotValue |-> 0, finalPivot |-> NIL,
     leftNext |-> NIL, pivot |-> NIL, last |-> NIL, order |-> <<>>]

\* A swap call as recorded in h.trace.
Logged(b, d, neighbor, at) ==
    h' = [h EXCEPT !.trace = Append(@, [b |-> b, d |-> d, neighbor |-> neighbor,
                                        at |-> at])]

Top == stack[Len(stack)]

SetTop(f) == [stack EXCEPT ![Len(stack)] = f]

Pop == SubSeq(stack, 1, Len(stack) - 1)

\* The recursion of _qsort is as deep as the goroutine stack allows; on a
\* well-formed list it is never deeper than the list is long.
MaxDepth == PoolSize + 1

Running(pc) == ~crashed /\ stack # <<>> /\ Top.pc = pc

Panic ==
    /\ crashed' = TRUE
    /\ UNCHANGED <<heapvars, stack, h>>

\* QuickSort(cmp): lazyInit, Front, Back and the call of _qsort.
QuickSort(l, k) ==
    /\ Idle
    /\ LET S1 == lazyInit(St, l)
       IN  /\ SetSt(S1)
           /\ stack' = <<Frame(Front(S1, l), Back(S1, l), k)>>
    /\ DoneSnap("QuickSort", l, NIL, NIL, NIL, k)
    /\ UNCHANGED crashed

\* if left == right { return }; LBoundary, RBoundary, pivotValue.
QEntry ==
    /\ Running("entry")
    /\ LET f == Top
       IN  IF f.left = f.right
           THEN /\ stack' = Pop
                /\ UNCHANGED <<heapvars, crashed, h>>
           ELSE IF f.left = NIL \/ f.right = NIL
           THEN Panic
           ELSE /\ stack' = SetTop([f EXCEPT !.LBoundary = prev[f.left],
                                             !.RBoundary = next[f.right],
                                             !.pivotValue = Value[f.left],
                                             !.pivot = f.left,
                                             !.last = f.right,
                                             !.order = Order(St, h.l),
                                             !.pc = "scanR"])
                /\ UNCHANGED <<heapvars, crashed, h>>

\* The right scan stopping at values equal to the pivot.
ScanRightCondStrict(S, f) ==
    f.right # f.left /\ Cmp(f.cmp, S.Value[f.right], f.pivotValue) > 0

\* The left scan stopping at values equal to the pivot.
ScanLeftCondStrict(S, f) ==
    f.left # f.right /\ Cmp(f.cmp, S.Value[f.left], f.pivotValue) < 0

\* The right scan without the test right != left.
ScanRightCondUnguarded(S, f) ==
    Cmp(f.cmp, S.Value[f.right], f.pivotValue) >= 0

\* right != left && cmp(right.Value, pivotValue) >= 0
ScanRightCond(S, f) ==
    f.right # f.left /\ Cmp(f.cmp, S.Value[f.right], f.pivotValue) >= 0

\* left != right && cmp(left.Value, pivotValue) <= 0
ScanLeftCond(S, f) ==
    f.left # f.right /\ Cmp(f.cmp, S.Value[f.left], f.pivotValue) <= 0

\* One evaluation of: for right != left && cmp(right.Value, pivotValue) >= 0
QScanRight ==
    /\ Running("scanR")
    /\ LET f == Top
       IN  IF f.right # f.left /\ f.right = NIL
           THEN Panic
           ELSE /\ IF ScanRightCond(St, f)
                   THEN stack' = SetTop([f EXCEPT !.right = ElemPrev(St, f.right)])
                   ELSE stack' = SetTop([f EXCEPT !.pc = "scanL"])
                /\ UNCHANGED <<heapvars, crashed, h>>

\* One evaluation of: for left != right && cmp(left.Value, pivotValue) <= 0
\* and, on leaving the loop, if left == right { break }.
QScanLeft ==
    /\ Running("scanL")
    /\ LET f == Top
       IN  IF f.left # f.right /\ f.left = NIL
           THEN Panic
           ELSE /\ IF ScanLeftCond(St, f)
                   THEN stack' = SetTop([f EXCEPT !.left = ElemNext(St, f.left)])
                   ELSE IF f.left = f.right
                   THEN stack' = SetTop([f EXCEPT !.pc = "place"])
                   ELSE stack' = SetTop([f EXCEPT !.pc = "swap"])
                /\ UNCHANGED <<heapvars, crashed, h>>

\* The swap of the cursors' nodes without left, right = right, left.
QSwapKeepsCursors ==
    /\ Running("swap")
    /\ LET f == Top
       IN  IF swapPanics(St, f.left, f.right)
           THEN Panic
           ELSE LET r == swap(St, f.left, f.right)
                IN  /\ SetSt(r.S)
                    /\ stack' = SetTop([f EXCEPT
                          !.pc = IF r.neighbor THEN "place" ELSE "scanR"])
                    /\ Logged(f.left, f.right, r.neighbor, "loop")
                    /\ UNCHANGED crashed

\* isNeighbour := swap(left, right); left, right = right, left; break if
\* isNeighbour.
QSwap ==
    /\ Running("swap")
    /\ LET f == Top
       IN  IF swapPanics(St, f.left, f.right)
           THEN Panic
           ELSE LET r == swap(St, f.left, f.right)
                IN  /\ SetSt(r.S)
                    /\ stack' = SetTop([f EXCEPT
                          !.left = f.right,
                          !.right = f.left,
                          !.pc = IF r.neighbor THEN "place" ELSE "scanR"])
                    /\ Logged(f.left, f.right, r.neighbor, "loop")
                    /\ UNCHANGED crashed

\* The same statements without "if isNeighbour { break }", which the comment
\* on that line calls unnecessary.
QSwapNoBreak ==
    /\ Running("swap")
    /\ LET f == Top
       IN  IF swapPanics(St, f.left, f.right)
           THEN Panic
           ELSE LET r == swap(St, f.left, f.right)
                IN  /\ SetSt(r.S)
                    /\ stack' = SetTop([f EXCEPT
                          !.left = f.right,
                          !.right = f.left,
                          !.pc = "scanR"])
                    /\ Logged(f.left, f.right, r.neighbor, "loop")
                    /\ UNCHANGED crashed

\* The pivot placement taking LBoundary itself for the pivot's node.
PivotNodeSlip(S, f) == f.LBoundary

\* LBoundary.next, the first argument of the placing swap.
PivotNode(S, f) == S.next[f.LBoundary]

\* leftNext := left.next; swap(LBoundary.next, left);
\* finalPivot = leftNext.prev
QPlace ==
    /\ Running("place")
    /\ LET f == Top
       IN  IF \/ f.left = NIL
              \/ f.LBoundary = NIL
              \/ next[f.left] = NIL
              \/ swapPanics(St, PivotNode(St, f), f.left)
           THEN Panic
           ELSE LET leftNext == next[f.left]
                    r == swap(St, PivotNode(St, f), f.left)
                IN  /\ SetSt(r.S)
                    /\ stack' = SetTop([f EXCEPT
                          !.leftNext = leftNext,
                          !.finalPivot = r.S.prev[leftNext],
                          !.pc = "recL"])
                    /\ Logged(PivotNode(St, f), f.left, r.neighbor, "pivot")
                    /\ UNCHANGED crashed

\* The recursion entered without testing that the sub-range is non-empty.
AlwaysRecurse(S, f) == TRUE

\* LBoundary.next != finalPivot
LeftNonEmpty(S, f) == S.next[f.LBoundary] # f.finalPivot

\* finalPivot != RBoundary.prev
RightNonEmpty(S, f) == f.finalPivot # S.prev[f.RBoundary]

\* if LBoundary.next != finalPivot { _qsort(LBoundary.next, finalPivot.prev) }
QRecurseLeft ==
    /\ Running("recL")
    /\ LET f == Top
           caller == SetTop([f EXCEPT !.pc = "recR"])
       IN  IF LeftNonEmpty(St, f)
           THEN IF f.finalPivot = NIL \/ Len(stack) >= MaxDepth
                THEN Panic
                ELSE /\ stack' = Append(caller,
                            Frame(next[f.LBoundary], prev[f.finalPivot], f.cmp))
                     /\ UNCHANGED <<heapvars, crashed, h>>
           ELSE /\ stack' = caller
                /\ UNCHANGED <<heapvars, crashed, h>>

\* if finalPivot != RBoundary.prev { _qsort(finalPivot.next, RBoundary.prev) }
QRecurseRight ==
    /\ Running("recR")
    /\ LET f == Top
           caller == SetTop([f EXCEPT !.pc = "ret"])
       IN  IF f.RBoundary = NIL
           THEN Panic
           ELSE IF RightNonEmpty(St, f)
           THEN IF f.finalPivot = NIL \/ Len(stack) >= MaxDepth
                THEN Panic
                ELSE /\ stack' = Append(caller,
                            Frame(next[f.finalPivot], prev[f.RBoundary], f.cmp))
                     /\ UNCHANGED <<heapvars, crashed, h>>
           ELSE /\ stack' = caller
                /\ UNCHANGED <<heapvars, crashed, h>>

\* The end of _qsort's body: back to the caller.
QReturn ==
    /\ Running("ret")
    /\ stack' = Pop
    /\ UNCHANGED <<heapvars, crashed, h>>

QStep ==
    \/ QEntry
    \/ QScanRight
    \/ QScanLeft
    \/ QSwap
    \/ QPlace
    \/ QRecurseLeft
    \/ QRecurseRight
    \/ QReturn

\* swap called directly on two elements of list l.
SwapCall(l, b, d) ==
    /\ Idle
    /\ LET r == swap(St, b, d)
       IN  /\ SetSt(r.S)
           /\ DoneSnap("swap", l, b, d, r.neighbor, "none")
    /\ UNCHANGED <<stack, crashed>>

\* --------------------------------------------------------- specifications
RECURSIVE Build(_, _, _)
\* The heap after PushBack of s[1], s[2], ... on list l.
Build(S, l, s) ==
    IF s = <<>> THEN S
    ELSE Build(insertValue(S, l, Head(s), S.prev[Root(l)]), l, Tail(s))

InitFrom(S) ==
    /\ next = S.next
    /\ prev = S.prev
    /\ list = S.list
    /\ Value = S.Value
    /\ len = S.len
    /\ nalloc = S.nalloc
    /\ stack = <<>>
    /\ crashed = FALSE
    /\ h = [op |-> "New", l |-> NIL, e |-> NIL, mark |-> NIL, ret |-> NIL,
            cmp |-> "none", pre |-> NoPre, trace |-> <<>>, ref |-> <<>>]

Init == InitFrom(Heap0)

Next ==
    \/ \E l \in Lists, v \in NewValues(nalloc + 1) : PushFront(l, v)
    \/ \E l \in Lists, v \in NewValues(nalloc + 1) : PushBack(l, v)
    \/ \E l \in Lists, v \in NewValues(nalloc + 1), mark \in Allocated : InsertBefore(l, v, mark)
    \/ \E l \in Lists, v \in NewValues(nalloc + 1), mark \in Allocated : InsertAfter(l, v, mark)
    \/ \E l \in Lists, e \in Allocated : Remove(l, e)
    \/ \E l \in Lists, e \in Allocated : MoveToFront(l, e)
    \/ \E l \in Lists, e \in Allocated : MoveToBack(l, e)
    \/ \E l \in Lists, e \in Allocated, mark \in Allocated : MoveBefore(l, e, mark)
    \/ \E l \in Lists, e \in Allocated, mark \in Allocated : MoveAfter(l, e, mark)
    \/ \E l \in Lists, other \in Lists : PushBackList(l, other)
    \/ \E l \in Lists, other \in Lists : PushFrontList(l, other)
    \/ \E l \in Lists, k \in CmpKinds : QuickSort(l, k)
    \/ QStep

Spec == Init /\ [][Next]_vars

\* The same client, which may also call Init on a list in use.
NextWithInit ==
    \/ \E l \in Lists, v \in NewValues(nalloc + 1) : PushBack(l, v)
    \/ \E l \in Lists, v \in NewValues(nalloc + 1), mark \in Allocated : InsertAfter(l, v, mark)
    \/ \E l \in Lists, e \in Allocated : Remove(l, e)
    \/ \E l \in Lists, e \in Allocated : MoveToFront(l, e)
    \/ \E l \in Lists : InitList(l)

SpecWithInit == Init /\ [][NextWithInit]_vars

\* Sorting: list 1 holds any input of up to MaxLen values, or the
\* end-to-end example, and is sorted, possibly repeatedly.
BoundedInputs == UNION {[1..n -> Values] : n \in 0..MaxLen}

SortInputs == BoundedInputs \cup {ExampleInput}

SortInit == \E s \in SortInputs : InitFrom(Build(Heap0, 1, s))

SortNext ==
    \/ \E k \in CmpKinds : QuickSort(1, k)
    \/ QStep

SortSpec == SortInit /\ [][SortNext]_vars

\* _qsort is sequential code: a started call keeps executing.
SortFairSpec == SortSpec /\ WF_vars(QStep)

\* QuickSort(cmp) with the _qsort that has no "if isNeighbour { break }",
\* called on the list as it was before the finished QuickSort call, whose
\* final order and swaps are kept in h.ref for the comparison.
QuickSortNoBreak ==
    /\ h.op = "QuickSort"
    /\ Idle
    /\ LET S1 == lazyInit(h.pre, h.l)
       IN  /\ SetSt(S1)
           /\ stack' = <<Frame(Front(S1, h.l), Back(S1, h.l), h.cmp)>>
    /\ h' = [h EXCEPT !.op = "QuickSortNoBreak",
                      !.ref = [order |-> Order(St, h.l), trace |-> h.trace],
                      !.trace = <<>>]
    /\ UNCHANGED crashed

\* The statements of _qsort with the break (during QuickSort) and without
\* it (during QuickSortNoBreak).
EquivStep ==
    \/ QEntry
    \/ QScanRight
    \/ QScanLeft
    \/ h.op = "QuickSort" /\ QSwap
    \/ h.op = "QuickSortNoBreak" /\ QSwapNoBreak
    \/ QPlace
    \/ QRecurseLeft
    \/ QRecurseRight
    \/ QReturn

\* Each input is sorted once by QuickSort and then, from the same initial
\* list, once by the variant without the break.
EquivNext ==
    \/ \E k \in CmpKinds : h.op = "New" /\ QuickSort(1, k)
    \/ QuickSortNoBreak
    \/ EquivStep

EquivSpec == SortInit /\ [][EquivNext]_vars

EquivFairSpec == EquivSpec /\ WF_vars(EquivStep)

\* The relink primitive on its own, applied to any two elements of a list
\* of up to MaxLen elements.
SwapInputs == {[i \in 1..n |-> ((i - 1) % MaxVal) + 1] : n \in 0..MaxLen}

SwapInit == \E s \in SwapInputs : InitFrom(Build(Heap0, 1, s))

SwapNext == \E b \in Reach(St, 1), d \in Reach(St, 1) : SwapCall(1, b, d)

SwapSpec == SwapInit /\ [][SwapNext]_vars


\* Copying: lists 1 and 2 hold up to MaxCopy values between them and are
\* copied into each other and into themselves while Elements remain.
MaxCopy == 3

CopyInputs ==
    {p \in BoundedInputs \X BoundedInputs : Len(p[1]) + Len(p[2]) <= MaxCopy}

CopyInit == \E p \in CopyInputs : InitFrom(Build(Build(Heap0, 1, p[1]), 2, p[2]))

CopyNext ==
    \/ \E l \in Lists, other \in Lists :
          nalloc + len[other] <= PoolSize /\ PushBackListCall(l, other)
    \/ \E l \in Lists, other \in Lists :
          nalloc + len[other] <= PoolSize /\ PushFrontListCall(l, other)

CopySpec == CopyInit /\ [][CopyNext]_vars

\* ================================================================ claims
SortDone == h.op = "QuickSort" /\ stack = <<>> /\ ~crashed

IsSorted(S, k, s) ==
    \A i \in 1..(Len(s) - 1) : Cmp(k, S.Value[s[i]], S.Value[s[i + 1]]) <= 0

\* C1: after QuickSort(cmp) returns, every adjacent pair (a, b) of the
\* front-to-back traversal satisfies cmp(a, b) <= 0; the input
\* 5,3,8,3,1,9,3 sorted ascending reads 1,3,3,3,5,8,9 and keeps length 7.
SortedAfterQuickSort ==
    SortDone =>
        /\ IsSorted(St, h.cmp, Order(St, h.l))
        /\ (ValuesOf(h.pre, Order(h.pre, h.l)) = ExampleInput /\ h.cmp = "asc")
              => /\ ValuesOf(St, Order(St, h.l)) = <<1, 3, 3, 3, 5, 8, 9>>
                 /\ len[h.l] = 7

SortedAfterQuickSortWitness ==
    /\ SortDone
    /\ h.cmp = "asc"
    /\ ValuesOf(h.pre, Order(h.pre, h.l)) = ExampleInput
    /\ ValuesOf(St, Order(St, h.l)) = <<1, 3, 3, 3, 5, 8, 9>>


\* C2: QuickSort neither creates nor destroys nodes: the reachable node set,
\* every node's Value and Len() are as before the call, and Len() is the
\* number of reachable nodes.
SortPreservesNodes ==
    SortDone =>
        /\ Reach(St, h.l) = Reach(h.pre, h.l)
        /\ Value = h.pre.Value
        /\ list = h.pre.list
        /\ nalloc = h.pre.nalloc
        /\ len = h.pre.len
        /\ len[h.l] = Len(Order(St, h.l))
        /\ len[h.l] = Cardinality(Reach(St, h.l))

SortPreservesNodesWitness ==
    /\ SortDone
    /\ len[h.l] >= 3
    /\ Order(St, h.l) # Order(h.pre, h.l)
    /\ Cardinality({Value[e] : e \in Reach(St, h.l)}) >= 3

\* C3: every QuickSort call returns: a started sort reaches the end of the
\* outermost _qsort without a panic, whatever the input and comparator.
SortTerminates == (stack # <<>>) ~> (stack = <<>> /\ ~crashed)

\* The two-element out-of-order list [2, 1], sorted ascending to [1, 2].
SortTerminatesWitness ==
    /\ SortDone
    /\ h.cmp = "asc"
    /\ ValuesOf(h.pre, Order(h.pre, h.l)) = <<2, 1>>
    /\ ValuesOf(St, Order(St, h.l)) = <<1, 2>>

\* C8: QuickSort on a list already non-decreasing under cmp moves no node:
\* the traversal after the call is the traversal before it.
SortIdempotent ==
    (SortDone /\ IsSorted(h.pre, h.cmp, Order(h.pre, h.l)))
        => Order(St, h.l) = Order(h.pre, h.l)

\* A sorted input with a tie and with distinct values.
SortIdempotentWitness ==
    /\ SortDone
    /\ IsSorted(h.pre, h.cmp, Order(h.pre, h.l))
    /\ Len(Order(h.pre, h.l)) >= 3
    /\ \E i \in 1..(Len(Order(St, h.l)) - 1) :
          Cmp(h.cmp, Value[Order(St, h.l)[i]], Value[Order(St, h.l)[i + 1]]) = 0
    /\ \E i \in 1..(Len(Order(St, h.l)) - 1) :
          Cmp(h.cmp, Value[Order(St, h.l)[i]], Value[Order(St, h.l)[i + 1]]) < 0
    /\ Order(St, h.l) = Order(h.pre, h.l)


RECURSIVE NthNext(_, _, _)
NthNext(S, n, k) ==
    IF k = 0 \/ n = NIL THEN n ELSE NthNext(S, S.next[n], k - 1)

RECURSIVE NthPrev(_, _, _)
NthPrev(S, n, k) ==
    IF k = 0 \/ n = NIL THEN n ELSE NthPrev(S, S.prev[n], k - 1)

RingConsistent(S, l) ==
    /\ \A e \in {Root(l)} \cup Reach(S, l) :
          /\ S.next[e] # NIL
          /\ S.prev[e] # NIL
          /\ S.prev[S.next[e]] = e
          /\ S.next[S.prev[e]] = e
    /\ S.len[l] >= 0
    /\ NthNext(S, Root(l), S.len[l] + 1) = Root(l)
    /\ NthPrev(S, Root(l), S.len[l] + 1) = Root(l)
    /\ \A k \in 1..S.len[l] : NthNext(S, Root(l), k) # Root(l)
    /\ \A k \in 1..S.len[l] : NthPrev(S, Root(l), k) # Root(l)

\* C4: after any sequence of the container operations and QuickSort, every
\* node e of a ring, the sentinel included, has e.next.prev == e and
\* e.prev.next == e, and Len()+1 steps of next, or of prev, from the
\* sentinel lead back to it.
RingInvariant == \A l \in Lists : RingConsistent(St, l)

RingInvariantWitness ==
    /\ SortDone
    /\ len[h.l] = 3
    /\ Order(St, h.l) # Order(h.pre, h.l)
    /\ OrderBack(St, h.l) = Order(St, h.l)

\* C5: after any sequence of inserts and removes, with owned, foreign or
\* already removed arguments, Len() is the number of nodes met by following
\* next from the sentinel before returning to it, and is never negative.
LenInvariant ==
    \A l \in Lists :
        /\ len[l] >= 0
        /\ len[l] = Len(Order(St, l))
        /\ NthNext(St, Root(l), len[l] + 1) = Root(l)

\* Remove was just called with an element of the other list.
LenInvariantWitness ==
    /\ h.op = "Remove"
    /\ list[h.e] # NIL
    /\ list[h.e] # h.l
    /\ len[h.l] >= 1
    /\ len[list[h.e]] >= 1

Exchanged(s, b, d) ==
    [i \in DOMAIN s |-> IF s[i] = b THEN d ELSE IF s[i] = d THEN b ELSE s[i]]

\* C6: swap(b, d) on two distinct elements of one list exchanges their
\* positions and nothing else: every other node keeps its position, every
\* node keeps its Value and owner, and the ring stays consistent.
SwapExchanges ==
    (h.op = "swap" /\ h.e # h.mark) =>
        /\ Order(St, h.l) = Exchanged(Order(h.pre, h.l), h.e, h.mark)
        /\ OrderBack(St, h.l) = Order(St, h.l)
        /\ Value = h.pre.Value
        /\ list = h.pre.list
        /\ len = h.pre.len
        /\ RingConsistent(St, h.l)

\* b and d with exactly one node between them.
SwapExchangesWitness ==
    /\ h.op = "swap"
    /\ h.e # h.mark
    /\ h.pre.next[h.pre.next[h.e]] = h.mark
    /\ h.pre.next[h.e] \in Elems
    /\ Order(St, h.l) # Order(h.pre, h.l)

\* C7: swap(b, d) returns true exactly when b.next == d or b.prev == d at
\* the call; swap(b, b) changes no pointer and returns false.
SwapReportsAdjacency ==
    h.op = "swap" =>
        IF h.e = h.mark
        THEN h.ret = FALSE /\ St = h.pre
        ELSE h.ret = (h.pre.next[h.e] = h.mark \/ h.pre.prev[h.e] = h.mark)

\* d immediately before b.
SwapReportsAdjacencyWitness ==
    /\ h.op = "swap"
    /\ h.e # h.mark
    /\ h.pre.prev[h.e] = h.mark
    /\ h.ret = TRUE

\* C9: a node's list back-reference is non-nil exactly when the node is
\* reachable from that list's sentinel, and then it names that list.
OwnerInvariant ==
    \A e \in Elems : \A l \in Lists : (list[e] = l) <=> (e \in Reach(St, l))

\* C10: an operation given a node the receiver does not own changes
\* nothing: InsertBefore and InsertAfter return nil and allocate nothing,
\* the Move operations leave both lists as they are, and Remove just
\* returns the node's Value.
ForeignNoOp ==
    [][/\ (h'.op \in {"InsertBefore", "InsertAfter"} /\ list[h'.mark] # h'.l)
           => (UNCHANGED heapvars /\ h'.ret = NIL)
       /\ (h'.op \in {"MoveToFront", "MoveToBack"} /\ list[h'.e] # h'.l)
           => UNCHANGED heapvars
       /\ (/\ h'.op \in {"MoveBefore", "MoveAfter"}
           /\ (list[h'.e] # h'.l \/ list[h'.mark] # h'.l))
           => UNCHANGED heapvars
       /\ (h'.op = "Remove" /\ list[h'.e] # h'.l)
           => (UNCHANGED heapvars /\ h'.ret = Value[h'.e])]_vars

\* MoveBefore was just called with an own element and a mark of the other
\* list.
ForeignNoOpWitness ==
    /\ h.op = "MoveBefore"
    /\ list[h.e] = h.l
    /\ list[h.mark] # NIL
    /\ list[h.mark] # h.l

Without(s, e) == SelectSeq(s, LAMBDA x : x # e)

RECURSIVE PutBefore(_, _, _)
\* s with e put immediately before mark.
PutBefore(s, mark, e) ==
    IF s = <<>> THEN <<>>
    ELSE IF Head(s) = mark THEN <<e>> \o s
    ELSE <<Head(s)>> \o PutBefore(Tail(s), mark, e)

RECURSIVE PutAfter(_, _, _)
\* s with e put immediately after mark.
PutAfter(s, mark, e) ==
    IF s = <<>> THEN <<>>
    ELSE IF Head(s) = mark THEN <<mark, e>> \o Tail(s)
    ELSE <<Head(s)>> \o PutAfter(Tail(s), mark, e)

OtherListsUnchanged(l) ==
    \A m \in Lists \ {l} : Order(St', m) = Order(St, m) /\ len'[m] = len[m]

\* C11: Remove(e) of an element of the list unlinks exactly e, leaves the
\* others in their order, decrements Len(), sets e.next, e.prev and e.list
\* to nil and returns e.Value; Remove(e) again changes nothing and returns
\* the same Value.
RemoveDetaches ==
    [][/\ (h'.op = "Remove" /\ list[h'.e] = h'.l) =>
            /\ Order(St', h'.l) = Without(Order(St, h'.l), h'.e)
            /\ OrderBack(St', h'.l) = Order(St', h'.l)
            /\ len'[h'.l] = len[h'.l] - 1
            /\ next'[h'.e] = NIL
            /\ prev'[h'.e] = NIL
            /\ list'[h'.e] = NIL
            /\ h'.ret = Value[h'.e]
            /\ Value' = Value
            /\ \A x \in Elems \ {h'.e} : list'[x] = list[x]
            /\ OtherListsUnchanged(h'.l)
       /\ (h.op = "Remove" /\ h'.op = "Remove" /\ h'.e = h.e /\ h'.l = h.l) =>
            /\ UNCHANGED heapvars
            /\ h'.ret = h.ret]_vars

\* e was removed from the middle or an end of a list that keeps two nodes.
RemoveDetachesWitness ==
    /\ h.op = "Remove"
    /\ list[h.e] = NIL
    /\ next[h.e] = NIL
    /\ h.ret = Value[h.e]
    /\ len[h.l] = 2

\* C12: MoveToFront, MoveToBack, MoveBefore and MoveAfter on elements of the
\* list give the old sequence with e taken out and put at the front, at the
\* back, before mark or after mark; Len(), the nodes, the Values and the
\* order of the others are as before, and e == mark or a move to e's own
\* place changes nothing.
MoveRelocates ==
    [][(/\ h'.op \in {"MoveToFront", "MoveToBack", "MoveBefore", "MoveAfter"}
        /\ list[h'.e] = h'.l
        /\ h'.op \in {"MoveBefore", "MoveAfter"} => list[h'.mark] = h'.l) =>
        LET o == Order(St, h'.l)
            now == Order(St', h'.l)
            rest == Without(o, h'.e)
        IN  /\ h'.op = "MoveToFront" => now = <<h'.e>> \o rest
            /\ h'.op = "MoveToBack" => now = rest \o <<h'.e>>
            /\ (h'.op = "MoveBefore" /\ h'.e # h'.mark)
                  => now = PutBefore(rest, h'.mark, h'.e)
            /\ (h'.op = "MoveAfter" /\ h'.e # h'.mark)
                  => now = PutAfter(rest, h'.mark, h'.e)
            /\ (h'.op \in {"MoveBefore", "MoveAfter"} /\ h'.e = h'.mark)
                  => UNCHANGED heapvars
            /\ OrderBack(St', h'.l) = now
            /\ UNCHANGED <<len, list, Value, nalloc>>
            /\ OtherListsUnchanged(h'.l)
            /\ (now = o) => UNCHANGED heapvars]_vars

\* e was moved to just before mark in a list of three.
MoveRelocatesWitness ==
    /\ h.op = "MoveBefore"
    /\ list[h.e] = h.l
    /\ list[h.mark] = h.l
    /\ h.e # h.mark
    /\ len[h.l] = 3
    /\ next[h.e] = h.mark

Fresh(k) == [i \in 1..k |-> nalloc + i]

Reverse(s) == [i \in DOMAIN s |-> s[Len(s) + 1 - i]]

\* C13: PushBackList(other) appends, and PushFrontList(other) prepends,
\* new nodes holding other's values of the time of the call in other's
\* order, so Len() grows by other's old length; with other the receiver
\* itself the list becomes its old sequence followed by a copy of it, and
\* a distinct other is left as it was.
ListCopied ==
    [][h'.op \in {"PushBackList", "PushFrontList"} =>
        LET l == h'.l
            other == h'.mark
            k == len[other]
            vals == ValuesOf(St, Order(St, other))
        IN  /\ crashed' = FALSE
            /\ k = Len(Order(St, other))
            /\ len'[l] = len[l] + k
            /\ nalloc' = nalloc + k
            /\ \A e \in Allocated : Value'[e] = Value[e] /\ list'[e] = list[e]
            /\ \A m \in Lists \ {l} : Order(St', m) = Order(St, m) /\ len'[m] = len[m]
            /\ OrderBack(St', l) = Order(St', l)
            /\ h'.op = "PushBackList" =>
                  /\ Order(St', l) = Order(St, l) \o Fresh(k)
                  /\ ValuesOf(St', Order(St', l)) = ValuesOf(St, Order(St, l)) \o vals
            /\ h'.op = "PushFrontList" =>
                  /\ Order(St', l) = Reverse(Fresh(k)) \o Order(St, l)
                  /\ ValuesOf(St', Order(St', l)) = vals \o ValuesOf(St, Order(St, l))]_vars

\* A list of two different values was just prepended to itself.
ListCopiedWitness ==
    /\ h.op = "PushFrontList"
    /\ h.mark = h.l
    /\ len[h.l] = 4
    /\ Value[Order(St, h.l)[1]] # Value[Order(St, h.l)[2]]
    /\ Value[Order(St, h.l)[1]] = Value[Order(St, h.l)[3]]
    /\ Value[Order(St, h.l)[2]] = Value[Order(St, h.l)[4]]

\* The nodes strictly between a and b, in list order.
Between(S, a, b) == Walk(S, S.next[a], b, PoolSize + 1)

InPartition == ~crashed /\ stack # <<>> /\ Top.pc \in {"scanR", "scanL", "swap", "place"}

\* C14: in every _qsort invocation the node that was left at entry is never
\* an argument of the swap in the partition loop, so up to and at the pivot
\* placement LBoundary.next is that node and it holds pivotValue.
PivotStaysPut ==
    InPartition =>
        /\ next[Top.LBoundary] = Top.pivot
        /\ Value[Top.pivot] = Top.pivotValue
        /\ Top.pc = "swap" => (Top.left # Top.pivot /\ Top.right # Top.pivot)

\* At the pivot placement, after a swap in this invocation's loop.
PivotStaysPutWitness ==
    /\ Running("place")
    /\ Top.left # Top.pivot
    /\ next[Top.LBoundary] = Top.pivot
    /\ h.trace # <<>>
    /\ h.trace[Len(h.trace)].at = "loop"

WellFormedRange(S, l, a, b) ==
    /\ a \in Elems
    /\ b \in Elems
    /\ a \in Range(WalkBack(S, b, Root(l), PoolSize + 1))

\* C15: every _qsort invocation, the first one on a non-empty list and every
\* recursive one, is given a range whose left is reached from its right by
\* prev without passing the sentinel, neither being the sentinel.
RangesWellFormed ==
    (Running("entry") /\ ~(Len(stack) = 1 /\ len[h.l] = 0))
        => WellFormedRange(St, h.l, Top.left, Top.right)

\* A recursive invocation on a range of several nodes.
RangesWellFormedWitness ==
    /\ Running("entry")
    /\ Len(stack) >= 2
    /\ Top.left # Top.right
    /\ WellFormedRange(St, h.l, Top.left, Top.right)

\* C16: after the pivot placement of an invocation on two or more nodes,
\* finalPivot is the node that was left at entry, every node between
\* LBoundary and finalPivot compares <= 0 with pivotValue and every node
\* between finalPivot and RBoundary compares >= 0.
PartitionPost ==
    Running("recL") =>
        /\ Top.finalPivot = Top.pivot
        /\ \A x \in Range(Between(St, Top.LBoundary, Top.finalPivot)) :
              Cmp(Top.cmp, Value[x], Top.pivotValue) <= 0
        /\ \A x \in Range(Between(St, Top.finalPivot, Top.RBoundary)) :
              Cmp(Top.cmp, Value[x], Top.pivotValue) >= 0

\* A partition with nodes on both sides of the pivot, reached by a swap.
PartitionPostWitness ==
    /\ Running("recL")
    /\ Between(St, Top.LBoundary, Top.finalPivot) # <<>>
    /\ Between(St, Top.finalPivot, Top.RBoundary) # <<>>
    /\ \E i \in DOMAIN h.trace : h.trace[i].at = "loop"

Pos(s, x) == CHOOSE i \in DOMAIN s : s[i] = x

\* The nodes of the range [left, right] an invocation was entered with.
EntryRange(f) == {f.order[i] : i \in Pos(f.order, f.pivot)..Pos(f.order, f.last)}

FrameKept(f) ==
    LET cur == Order(St, h.l)
    IN  /\ Len(cur) = Len(f.order)
        /\ \A i \in DOMAIN f.order : f.order[i] \notin EntryRange(f) => cur[i] = f.order[i]
        /\ Range(Between(St, f.LBoundary, f.RBoundary)) = EntryRange(f)
        /\ f.LBoundary \notin EntryRange(f)
        /\ f.RBoundary \notin EntryRange(f)

\* C17: an invocation _qsort(left, right) moves only nodes of its range:
\* throughout it and its recursive calls LBoundary, RBoundary and every
\* node outside the range stay at their positions, and the nodes between
\* LBoundary and RBoundary are those of [left, right] at entry, also on
\* return.
SortFrame ==
    ~crashed => \A i \in DOMAIN stack : stack[i].pc # "entry" => FrameKept(stack[i])

\* A recursive invocation on an inner range returns after moving nodes.
SortFrameWitness ==
    /\ Running("ret")
    /\ Len(stack) >= 2
    /\ Cardinality(EntryRange(Top)) >= 2
    /\ Cardinality(EntryRange(Top)) < len[h.l]
    /\ Order(St, h.l) # Top.order
    /\ FrameKept(Top)

\* C18: at every point of a QuickSort call, after each swap, the ring is
\* valid: next from the sentinel meets each of the Len() nodes once and
\* comes back, and prev is the inverse of next.
RingValidDuringSort ==
    h.op = "QuickSort" =>
        /\ Len(Order(St, h.l)) = len[h.l]
        /\ Cardinality(Reach(St, h.l)) = len[h.l]
        /\ Reach(St, h.l) = Reach(h.pre, h.l)
        /\ OrderBack(St, h.l) = Order(St, h.l)
        /\ NthNext(St, Root(h.l), len[h.l] + 1) = Root(h.l)
        /\ \A e \in Reach(St, h.l) \cup {Root(h.l)} :
              prev[next[e]] = e /\ next[prev[e]] = e

\* Between two relinks: some swaps done, the list not yet sorted.
RingValidDuringSortWitness ==
    /\ h.op = "QuickSort"
    /\ stack # <<>>
    /\ Len(h.trace) >= 2
    /\ Order(St, h.l) # Order(h.pre, h.l)
    /\ ~IsSorted(St, h.cmp, Order(St, h.l))

\* C19: during QuickSort no cursor leaves its range: the scans never get
\* nil from Prev() or Next(), left and right and the arguments of every
\* swap are elements between LBoundary and RBoundary, never the sentinel,
\* and no nil is dereferenced.
CursorsInRange ==
    h.op = "QuickSort" =>
        /\ ~crashed
        /\ InPartition =>
              /\ Top.left \in Range(Between(St, Top.LBoundary, Top.RBoundary))
              /\ Top.right \in Range(Between(St, Top.LBoundary, Top.RBoundary))
              /\ Top.left \in Elems
              /\ Top.right \in Elems
              /\ Top.pc = "place" => PivotNode(St, Top) \in Elems
        /\ \A i \in DOMAIN h.trace :
              /\ h.trace[i].b \in Elems
              /\ h.trace[i].d \in Elems

\* The right scan has stepped down to the range's first node.
CursorsInRangeWitness ==
    /\ Running("scanL")
    /\ Top.right = Top.pivot
    /\ Top.left = Top.pivot
    /\ Top.last # Top.pivot
    /\ Top.LBoundary = Root(h.l)

VariantDone == h.op = "QuickSortNoBreak" /\ stack = <<>> /\ ~crashed

IsPrefix(s, t) == Len(s) <= Len(t) /\ \A i \in DOMAIN s : s[i] = t[i]

\* C20: the break after an adjacent swap is redundant: from the same list
\* the _qsort without it returns, having made the same swaps in the same
\* order as QuickSort and leaving the same node order.
BreakRedundant ==
    /\ [](h.op = "QuickSortNoBreak" => (~crashed /\ IsPrefix(h.trace, h.ref.trace)))
    /\ [](VariantDone => (Order(St, h.l) = h.ref.order /\ h.trace = h.ref.trace))
    /\ (h.op = "QuickSortNoBreak") ~> VariantDone

\* The variant has returned after a run in which a swap of the partition
\* loop reported adjacency, where QuickSort took the break.
BreakRedundantWitness ==
    /\ VariantDone
    /\ h.trace = h.ref.trace
    /\ Order(St, h.l) = h.ref.order
    /\ Order(St, h.l) # Order(h.pre, h.l)
    /\ \E i \in DOMAIN h.trace : h.trace[i].at = "loop" /\ h.trace[i].neighbor

====
